---- MODULE Spec2Model ----
(***************************************************************************)
(* Model of the line sampler service: the thread-safe line cache           *)
(* (server/cache_manager.py) and the per-connection session handler         *)
(* (server/server.py).                                                      *)
(***************************************************************************)
EXTENDS Integers, Sequences, FiniteSets, TLC

VARIABLES
    available,           \* ThreadSafeCache.available_lines (deque, as a sequence)
    total_lines_loaded,  \* ThreadSafeCache.total_lines_loaded
    lock,                \* ThreadSafeCache.lock: the holding thread, or NoThread
    pc,                  \* per thread: position in the code
    frame,               \* per thread: arguments, locals and return value of the cache call
    loadedCnt,           \* history: per content, lines ever passed to add_lines
    returnedCnt,         \* history: per content, lines ever returned by sample
    lastSampled,         \* history: contents returned by the latest sample, cleared by add_lines
    data,                \* per session: the bytes returned by the last recv, being handled
    response,            \* per session: the response being written to the socket
    closedBy,            \* per session: why the session ended, or "open"
    ops,                 \* history, per session: cache calls made for the message read last,
                         \* until the session is through with it
    sent,                \* history, per session: the requests the client has sent, in order
    inbuf,               \* per session: bytes the client has sent and recv has not yet returned
    dispatched,          \* history, per session: the requests dispatched to a handler, in order
    running,             \* LineServer.running
    lpc,                 \* position of the thread that runs LineServer.start
    server_socket,       \* LineServer.server_socket: "none", "listening" or "closed"
    spc                  \* position of the thread that runs LineServer.stop

cache == <<available, total_lines_loaded>>
history == <<loadedCnt, returnedCnt, lastSampled>>
session == <<data, response, closedBy>>
wire == <<sent, inbuf, dispatched>>
listener == <<running, lpc, server_socket, spc>>
vars == <<available, total_lines_loaded, lock, pc, frame,
          loadedCnt, returnedCnt, lastSampled, data, response, closedBy,
          ops, sent, inbuf, dispatched, running, lpc, server_socket, spc>>

(***************************************************************************)
(* Bounds                                                                  *)
(***************************************************************************)
MaxLoaded == 3      \* cap on total_lines_loaded
MaxBatch == 2       \* longest list passed to add_lines
MaxN == 2           \* largest n passed to sample
NumScenarioLines == 4   \* M, lines pre-loaded in the concurrency scenario
ScenarioBatch == 2      \* n of every sample call in the concurrency scenario

Threads == {"t1", "t2"}
NoThread == "none"

Lines == {"a", "b"}
ScenarioLines == [i \in 1..NumScenarioLines |-> "line" \o ToString(i)]
\* Every line content: a file may also hold empty lines.
AllLines == Lines \cup {""} \cup {ScenarioLines[i] : i \in 1..NumScenarioLines}

(***************************************************************************)
(* Helpers                                                                 *)
(***************************************************************************)
Min(a, b) == IF a <= b THEN a ELSE b

Range(s) == {s[i] : i \in 1..Len(s)}

\* Number of occurrences of content c in sequence s.
Count(s, c) == Cardinality({i \in 1..Len(s) : s[i] = c})

\* All lists of at most MaxBatch lines.
Batches == UNION {[1..k -> Lines] : k \in 0..MaxBatch}

\* Drawing with replacement, as random.choices would.
SelectionsWithReplacement(len, k) == [1..k -> 1..len]

\* random.sample(population, k): k distinct positions, in selection order.
Selections(len, k) ==
    {idx \in [1..k -> 1..len] : \A i, j \in 1..k : i # j => idx[i] # idx[j]}

NoRet == [kind |-> "none"]
\* caller: who made the cache call; n_arg: the n the call was made with;
\* before, total_before: the cache as the call found it on entering the lock.
IdleFrame == [caller |-> "test", file_path |-> "", n_arg |-> 0, n |-> 0, lines |-> <<>>,
              lines_list |-> <<>>, sampled |-> <<>>, ret |-> NoRet,
              before |-> <<>>, total_before |-> 0]

NoData == [wire |-> "none"]
NoResponse == [result |-> [tag |-> "none"], error |-> [tag |-> "none"]]

(***************************************************************************)
(* threading.Lock                                                          *)
(***************************************************************************)
\* A lock that never blocks.
AcquirableAlways(t) == TRUE

Acquirable(t) == lock = NoThread

AfterAcquire(p) ==
    CASE p = "add_acquire" -> "add_extend"
      [] p = "sample_acquire" -> "sample_check"
      [] p = "size_acquire" -> "size_read"
      [] p = "stats_acquire" -> "stats_read"

\* `with self.lock:` entry of any of the four operations.
Acquire(t) ==
    /\ pc[t] \in {"add_acquire", "sample_acquire", "size_acquire", "stats_acquire"}
    /\ Acquirable(t)
    /\ lock' = t
    /\ pc' = [pc EXCEPT ![t] = AfterAcquire(pc[t])]
    /\ UNCHANGED <<wire, listener, ops, available, total_lines_loaded, frame, loadedCnt, returnedCnt, lastSampled, session>>

\* A `with` block that keeps the lock when it is left.
ReleasedNever(t) == t

\* Leaving the `with self.lock:` block: the lock is free again.
Released(t) == NoThread

\* A session that goes back to reading once its cache call returns.
ContinueReading(t) == "recv"

\* Where a thread continues after its cache call returns: a session goes on to
\* write the response; the scenario's sampler stops once a sample comes back empty.
Continue(t) ==
    CASE frame[t].caller = "session" -> "send_result"
      [] frame[t].caller = "scenario" ->
            IF frame[t].ret.v = <<>> THEN "done" ELSE "idle"
      [] OTHER -> "idle"

(***************************************************************************)
(* Protocol.encode_response, and the result a session's handler returns    *)
(***************************************************************************)
NoneValue == [tag |-> "none"]
Str(msg) == [tag |-> "str", v |-> msg]

\* An encoding that fills in an empty result when there is none.
EncodeResponseDefault(result, error) ==
    [result |-> IF result = NoneValue THEN [tag |-> "lines", v |-> <<>>] ELSE result,
     error |-> error]

\* message = {"type": "response", "result": result, "error": error}
EncodeResponse(result, error) == [result |-> result, error |-> error]

\* handle_load / handle_sample return the cache call's value wrapped in a dict,
\* and handle_client encodes it: response = Protocol.encode_response(result)
Respond(t, result) ==
    IF frame[t].caller = "session"
    THEN [response EXCEPT ![t] = EncodeResponse(result, NoneValue)]
    ELSE response

(***************************************************************************)
(* ThreadSafeCache.add_lines                                               *)
(***************************************************************************)
CallAddLines(t) ==
    /\ pc[t] = "idle"
    /\ \E lines \in Batches :
        /\ total_lines_loaded + Len(lines) <= MaxLoaded
        /\ frame' = [frame EXCEPT ![t] = [IdleFrame EXCEPT !.lines = lines]]
    /\ pc' = [pc EXCEPT ![t] = "add_acquire"]
    /\ UNCHANGED <<wire, listener, ops, available, total_lines_loaded, lock, loadedCnt, returnedCnt, lastSampled, session>>

\* An append that skips lines whose content is already stored.
ExtendDedup(avail, lines) ==
    avail \o SelectSeq(lines, LAMBDA line : line \notin Range(avail))

\* self.available_lines.extend(lines)
Extend(avail, lines) == avail \o lines

AddExtend(t) ==
    /\ pc[t] = "add_extend"
    /\ available' = Extend(available, frame[t].lines)
    /\ loadedCnt' = [c \in AllLines |-> loadedCnt[c] + Count(frame[t].lines, c)]
    /\ lastSampled' = {}
    /\ frame' = [frame EXCEPT ![t].before = available,
                              ![t].total_before = total_lines_loaded]
    /\ pc' = [pc EXCEPT ![t] = "add_count"]
    /\ UNCHANGED <<wire, listener, ops, total_lines_loaded, lock, returnedCnt, session>>

\* A counter of the calls of add_lines.
CountedCalls(total, lines) == total + 1

\* self.total_lines_loaded += len(lines)
Counted(total, lines) == total + Len(lines)

\* self.total_lines_loaded += len(lines); the return value is len(lines)
AddCount(t) ==
    /\ pc[t] = "add_count"
    /\ total_lines_loaded' = Counted(total_lines_loaded, frame[t].lines)
    /\ frame' = [frame EXCEPT ![t].ret = [kind |-> "int", v |-> Len(frame[t].lines)]]
    /\ pc' = [pc EXCEPT ![t] = "add_return"]
    /\ UNCHANGED <<wire, listener, ops, available, lock, loadedCnt, returnedCnt, lastSampled, session>>

AddReturn(t) ==
    /\ pc[t] = "add_return"
    /\ lock' = Released(t)
    /\ pc' = [pc EXCEPT ![t] = Continue(t)]
    /\ response' = Respond(t, [tag |-> "lines_read", v |-> frame[t].ret.v])
    /\ frame' = [frame EXCEPT ![t] = IdleFrame]
    /\ UNCHANGED <<wire, listener, ops, available, total_lines_loaded, loadedCnt, returnedCnt, lastSampled,
                   data, closedBy>>

(***************************************************************************)
(* ThreadSafeCache.sample                                                  *)
(***************************************************************************)
CallSample(t) ==
    /\ pc[t] = "idle"
    /\ \E n \in -1..MaxN :
        frame' = [frame EXCEPT ![t] = [IdleFrame EXCEPT !.n_arg = n, !.n = n]]
    /\ pc' = [pc EXCEPT ![t] = "sample_acquire"]
    /\ UNCHANGED <<wire, listener, ops, available, total_lines_loaded, lock, loadedCnt, returnedCnt, lastSampled, session>>

\* A test that lets a non-positive n through to the sampling.
EarlyReturnOnlyEmpty(avail, n) == avail = <<>>

\* if not self.available_lines or n <= 0:
EarlyReturn(avail, n) == avail = <<>> \/ n <= 0

\* if not self.available_lines or n <= 0: return []
\* n = min(n, len(self.available_lines)); lines_list = list(self.available_lines)
SampleCheck(t) ==
    /\ pc[t] = "sample_check"
    /\ IF EarlyReturn(available, frame[t].n)
       THEN /\ frame' = [frame EXCEPT ![t].ret = [kind |-> "lines", v |-> <<>>],
                                      ![t].before = available,
                                      ![t].total_before = total_lines_loaded]
            /\ pc' = [pc EXCEPT ![t] = "sample_return"]
       ELSE /\ frame' = [frame EXCEPT ![t].n = Min(frame[t].n, Len(available)),
                                      ![t].lines_list = available,
                                      ![t].before = available,
                                      ![t].total_before = total_lines_loaded]
            /\ pc' = [pc EXCEPT ![t] = "sample_pick"]
    /\ UNCHANGED <<wire, listener, ops, available, total_lines_loaded, lock, loadedCnt, returnedCnt, lastSampled, session>>

\* sampled = random.sample(lines_list, n): n distinct positions of the list,
\* or ValueError for a negative n, which leaves the `with` block.
SamplePick(t) ==
    /\ pc[t] = "sample_pick"
    /\ IF frame[t].n < 0
       THEN /\ frame' = [frame EXCEPT ![t].ret = [kind |-> "raise", v |-> <<>>]]
            /\ pc' = [pc EXCEPT ![t] = "sample_return"]
       ELSE /\ \E idx \in Selections(Len(frame[t].lines_list), frame[t].n) :
                frame' = [frame EXCEPT ![t].sampled =
                              [i \in 1..frame[t].n |-> frame[t].lines_list[idx[i]]]]
            /\ pc' = [pc EXCEPT ![t] = "sample_rebuild"]
    /\ UNCHANGED <<wire, listener, ops, available, total_lines_loaded, lock, loadedCnt, returnedCnt, lastSampled, session>>

\* A rebuild that leaves the sampled lines in the pool.
RebuildKeepAll(lines_list, sampled) == lines_list

\* sampled_set = set(sampled)
\* deque([line for line in lines_list if line not in sampled_set])
Rebuild(lines_list, sampled) ==
    SelectSeq(lines_list, LAMBDA line : line \notin Range(sampled))

SampleRebuild(t) ==
    /\ pc[t] = "sample_rebuild"
    /\ available' = Rebuild(frame[t].lines_list, frame[t].sampled)
    /\ frame' = [frame EXCEPT ![t].ret = [kind |-> "lines", v |-> frame[t].sampled]]
    /\ pc' = [pc EXCEPT ![t] = "sample_return"]
    /\ UNCHANGED <<wire, listener, ops, total_lines_loaded, lock, loadedCnt, returnedCnt, lastSampled, session>>

SampleReturn(t) ==
    /\ pc[t] = "sample_return"
    /\ lock' = Released(t)
    /\ returnedCnt' = [c \in AllLines |-> returnedCnt[c] + Count(frame[t].ret.v, c)]
    /\ lastSampled' = Range(frame[t].ret.v)
    /\ pc' = [pc EXCEPT ![t] = Continue(t)]
    /\ response' = Respond(t, [tag |-> "lines", v |-> frame[t].ret.v])
    /\ frame' = [frame EXCEPT ![t] = IdleFrame]
    /\ UNCHANGED <<wire, listener, ops, available, total_lines_loaded, loadedCnt, data, closedBy>>

(***************************************************************************)
(* ThreadSafeCache.size and ThreadSafeCache.get_stats                      *)
(***************************************************************************)
CallSize(t) ==
    /\ pc[t] = "idle"
    /\ frame' = [frame EXCEPT ![t] = IdleFrame]
    /\ pc' = [pc EXCEPT ![t] = "size_acquire"]
    /\ UNCHANGED <<wire, listener, ops, available, total_lines_loaded, lock, loadedCnt, returnedCnt, lastSampled, session>>

SizeRead(t) ==
    /\ pc[t] = "size_read"
    /\ frame' = [frame EXCEPT ![t].ret = [kind |-> "int", v |-> Len(available)]]
    /\ pc' = [pc EXCEPT ![t] = "size_return"]
    /\ UNCHANGED <<wire, listener, ops, available, total_lines_loaded, lock, loadedCnt, returnedCnt, lastSampled, session>>

SizeReturn(t) ==
    /\ pc[t] = "size_return"
    /\ lock' = Released(t)
    /\ pc' = [pc EXCEPT ![t] = "idle"]
    /\ frame' = [frame EXCEPT ![t] = IdleFrame]
    /\ UNCHANGED <<wire, listener, ops, available, total_lines_loaded, loadedCnt, returnedCnt, lastSampled, session>>

CallGetStats(t) ==
    /\ pc[t] = "idle"
    /\ frame' = [frame EXCEPT ![t] = IdleFrame]
    /\ pc' = [pc EXCEPT ![t] = "stats_acquire"]
    /\ UNCHANGED <<wire, listener, ops, available, total_lines_loaded, lock, loadedCnt, returnedCnt, lastSampled, session>>

StatsRead(t) ==
    /\ pc[t] = "stats_read"
    /\ frame' = [frame EXCEPT ![t].ret =
                    [kind |-> "stats",
                     available_lines |-> Len(available),
                     total_lines_loaded |-> total_lines_loaded]]
    /\ pc' = [pc EXCEPT ![t] = "stats_return"]
    /\ UNCHANGED <<wire, listener, ops, available, total_lines_loaded, lock, loadedCnt, returnedCnt, lastSampled, session>>

StatsReturn(t) ==
    /\ pc[t] = "stats_return"
    /\ lock' = Released(t)
    /\ pc' = [pc EXCEPT ![t] = "idle"]
    /\ frame' = [frame EXCEPT ![t] = IdleFrame]
    /\ UNCHANGED <<wire, listener, ops, available, total_lines_loaded, loadedCnt, returnedCnt, lastSampled, session>>

(***************************************************************************)
(* What a client can put on the wire, and the files on disk                *)
(***************************************************************************)
Absent == "<absent>"

\* A file on disk: its lines as they were written, each the characters of the
\* line and of its terminator (the last line may have none), or the fault
\* open()/readlines() raises.
Text(raw) == [ok |-> TRUE, raw |-> raw]
Fault(msg) == [ok |-> FALSE, msg |-> msg]
Raw(text, eol) == [text |-> text, eol |-> eol]

LF == <<"\n">>
CR == <<"\r">>
CRLF == <<"\r", "\n">>

FileNames == {"aa.txt", "ab.txt", "b.txt", "missing.txt", "denied.txt"}

\* Files with empty lines, repeated lines, each kind of terminator, no line at all.
MoreFileNames == {"gaps.txt", "mac.txt", "blank.txt", "empty.txt"}

FileSystem(path) ==
    CASE path = "aa.txt" -> Text(<<Raw(<<"a">>, LF), Raw(<<"a">>, LF)>>)
      [] path = "ab.txt" -> Text(<<Raw(<<"a">>, CRLF), Raw(<<"b">>, <<>>)>>)
      [] path = "b.txt" -> Text(<<Raw(<<"b">>, LF)>>)
      [] path = "gaps.txt" -> Text(<<Raw(<<"a">>, LF), Raw(<<>>, CRLF), Raw(<<"a">>, <<>>)>>)
      [] path = "mac.txt" -> Text(<<Raw(<<"b">>, CR), Raw(<<>>, CR)>>)
      [] path = "blank.txt" -> Text(<<Raw(<<>>, LF)>>)
      [] path = "empty.txt" -> Text(<<>>)
      [] path = "denied.txt" -> Fault("[Errno 13] Permission denied")
      [] OTHER -> Fault("[Errno 2] No such file or directory")

\* The characters of a file, first to last.
RECURSIVE Bytes(_)
Bytes(raw) ==
    IF raw = <<>> THEN <<>>
    ELSE Head(raw).text \o Head(raw).eol \o Bytes(Tail(raw))

\* The "n" of a sample request as JSON carries it. A float is held in halves:
\* h stands for h / 2.
NAbsent == [t |-> "absent"]
NNull == [t |-> "null"]
NInt(i) == [t |-> "int", v |-> i]
NFloat(h) == [t |-> "float", h |-> h]
NStr(str) == [t |-> "str", v |-> str]
NList == [t |-> "list"]

NValues ==
    {NAbsent, NNull, NList, NStr("2"), NStr("-1"), NStr("x")}
        \cup {NInt(i) : i \in -1..MaxN}
        \cup {NFloat(h) : h \in {-3, -1, 1, 3}}

ParamsAbsent == [p |-> "absent"]
ParamsNull == [p |-> "null"]
ParamsNumber == [p |-> "number"]
Dict(file_path, n) == [p |-> "dict", file_path |-> file_path, n |-> n]
EmptyDict == Dict(Absent, NAbsent)

Garbage == [wire |-> "garbage"]                      \* not UTF-8, or not JSON
Json(value) == [wire |-> "json", value |-> value]
JsonList == [json |-> "list"]                        \* JSON, but not an object
Object(type, method, params) ==
    [json |-> "object", type |-> type, method |-> method, params |-> params]

Messages ==
    {Garbage, Json(JsonList),
     Json(Object("response", "sample", Dict(Absent, NInt(1)))),
     Json(Object(Absent, "load", Dict("b.txt", NAbsent))),
     Json(Object("request", "stats", ParamsAbsent)),
     Json(Object("request", Absent, ParamsAbsent))}
    \cup {Json(Object("request", "load", p)) :
            p \in {ParamsAbsent, ParamsNull, Dict("", NAbsent)}
                    \cup {Dict(f, NAbsent) : f \in FileNames}}
    \cup {Json(Object("request", "sample", p)) :
            p \in {ParamsAbsent, ParamsNumber} \cup {Dict(Absent, n) : n \in NValues}}

(***************************************************************************)
(* LineServer.handle_sample, handle_load and the dispatch of handle_client *)
(***************************************************************************)
Raise(exc, msg) == [outcome |-> "raise", exc |-> exc, msg |-> msg]
Value(v) == [outcome |-> "value", v |-> v]

\* Python's int() of a string: an optionally signed decimal literal.
IntOfStr(str) ==
    CASE str = "2" -> Value(2)
      [] str = "-1" -> Value(-1)
      [] OTHER -> Raise("ValueError", "invalid literal for int() with base 10")

\* Python's int(): an integer as it is, a float truncated toward zero, a
\* string parsed, anything else a TypeError.
PyInt(n) ==
    CASE n.t = "int" -> Value(n.v)
      [] n.t = "float" -> Value(IF n.h >= 0 THEN n.h \div 2 ELSE -((-n.h) \div 2))
      [] n.t = "str" -> IntOfStr(n.v)
      [] OTHER -> Raise("TypeError", "int() argument must be a string or a number")

\* n = params.get("n") ... lines = self.cache.sample(n)
HandleSample(params) ==
    IF params.p # "dict"
    THEN Raise("AttributeError", "object has no attribute 'get'")
    ELSE IF params.n.t \in {"absent", "null"}
    THEN Raise("ValueError", "Missing n parameter")
    ELSE LET n == PyInt(params.n) IN
         IF n.outcome = "raise"
         THEN IF n.exc = "ValueError"
              THEN Raise("ValueError", "n must be an integer")
              ELSE n
         ELSE IF n.v < 0
              THEN Raise("ValueError", "n must be an integer")
              ELSE [outcome |-> "sample", n |-> n.v]

\* file_path = params.get("file_path"); if not file_path: raise ...
HandleLoad(params) ==
    IF params.p # "dict"
    THEN Raise("AttributeError", "object has no attribute 'get'")
    ELSE IF params.file_path \in {Absent, ""}
    THEN Raise("ValueError", "Missing file_path parameter")
    ELSE [outcome |-> "load", file_path |-> params.file_path]

\* Protocol.decode: json.loads(data.decode('utf-8'))
Decode(d) ==
    IF d.wire = "garbage"
    THEN Raise("ValueError", "Expecting value")
    ELSE Value(d.value)

\* The body of handle_client's inner try, up to the handler's file or cache call.
Dispatch(d) ==
    LET decoded == Decode(d) IN
    IF decoded.outcome = "raise" THEN decoded
    ELSE LET message == decoded.v IN
         IF message.json # "object"
         THEN Raise("AttributeError", "object has no attribute 'get'")
         ELSE IF message.type # "request"
         THEN Raise("ValueError", "Invalid message type")
         ELSE LET params == IF message.params.p = "absent"
                            THEN EmptyDict ELSE message.params IN
              CASE message.method = "load" -> HandleLoad(params)
                [] message.method = "sample" -> HandleSample(params)
                [] OTHER -> Raise("ValueError", "Unknown method")

\* f.readlines() of a file opened in text mode: "\n", "\r" and "\r\n" each end
\* a line and are read as "\n"; a last line without terminator is kept.
RECURSIVE ReadLinesFrom(_, _, _)
ReadLinesFrom(chars, i, cur) ==
    IF i > Len(chars)
    THEN IF cur = <<>> THEN <<>> ELSE <<cur>>
    ELSE IF chars[i] = "\n"
    THEN <<Append(cur, "\n")>> \o ReadLinesFrom(chars, i + 1, <<>>)
    ELSE IF chars[i] = "\r"
    THEN <<Append(cur, "\n")>>
            \o ReadLinesFrom(chars,
                             IF i < Len(chars) /\ chars[i + 1] = "\n" THEN i + 2 ELSE i + 1,
                             <<>>)
    ELSE ReadLinesFrom(chars, i + 1, Append(cur, chars[i]))

ReadLines(chars) == ReadLinesFrom(chars, 1, <<>>)

\* line.rstrip('\n\r'): every trailing "\n" and "\r" goes.
RECURSIVE RStrip(_)
RStrip(line) ==
    IF line # <<>> /\ line[Len(line)] \in {"\n", "\r"}
    THEN RStrip(SubSeq(line, 1, Len(line) - 1))
    ELSE line

\* The string a sequence of characters spells.
RECURSIVE ToStr(_)
ToStr(chars) == IF chars = <<>> THEN "" ELSE Head(chars) \o ToStr(Tail(chars))

\* A comprehension that leaves blank lines out.
StripLinesSkipBlank(lines) ==
    LET kept == SelectSeq(lines, LAMBDA line : RStrip(line) # <<>>) IN
    [i \in 1..Len(kept) |-> ToStr(RStrip(kept[i]))]

\* lines = [line.rstrip('\n\r') for line in lines]
StripLines(lines) == [i \in 1..Len(lines) |-> ToStr(RStrip(lines[i]))]

\* A read that takes an unreadable file for an empty one.
OpenAndReadSwallow(file_path) ==
    LET f == FileSystem(file_path) IN
    IF f.ok THEN Value(StripLines(ReadLines(Bytes(f.raw)))) ELSE Value(<<>>)

\* with open(file_path, 'r', encoding='utf-8') as f: lines = f.readlines()
OpenAndRead(file_path) ==
    LET f == FileSystem(file_path) IN
    IF f.ok THEN Value(StripLines(ReadLines(Bytes(f.raw))))
    ELSE Raise("ValueError", "Error reading file")

\* Lines a message would add to the cache, for the cap on total_lines_loaded.
LoadSize(d) ==
    LET o == Dispatch(d) IN
    IF o.outcome = "load" /\ OpenAndRead(o.file_path).outcome = "value"
    THEN Len(OpenAndRead(o.file_path).v)
    ELSE 0

(***************************************************************************)
(* LineServer.handle_client                                                *)
(***************************************************************************)
\* A handler that gives up the connection when a request's handling raises.
OnRequestErrorClose == "closed"

\* Where the session goes when the request's handling raises: the inner
\* `except Exception` encodes an error response and writes it.
OnRequestError == "send_error"

\* A fault that takes every session down with it.
CloseAll(t, why) ==
    /\ pc' = [u \in Threads |-> "closed"]
    /\ closedBy' = [u \in Threads |-> why]

\* Leaving the loop by `break` or through the outer `except Exception`, then
\* finally: client_socket.close()
Close(t, why) ==
    /\ pc' = [pc EXCEPT ![t] = "closed"]
    /\ closedBy' = [closedBy EXCEPT ![t] = why]

\* data = client_socket.recv(MAX_MESSAGE_SIZE); if not data: break
\* The peer has sent one of msgs, has closed, or the read fails.
RecvFrom(t, msgs) ==
    /\ pc[t] = "recv"
    /\ \/ /\ \E d \in msgs :
                /\ total_lines_loaded + LoadSize(d) <= MaxLoaded
                /\ data' = [data EXCEPT ![t] = d]
          /\ pc' = [pc EXCEPT ![t] = "handle"]
          /\ UNCHANGED closedBy
       \/ Close(t, "eof") /\ UNCHANGED data
       \/ Close(t, "transport") /\ UNCHANGED data
    /\ UNCHANGED <<wire, listener, ops, available, total_lines_loaded, lock, frame, history, response>>

Recv(t) == RecvFrom(t, Messages)

\* message = Protocol.decode(data) ... result = self.handle_load(params) /
\* self.handle_sample(params), up to the handler's file or cache call.
Dispatching(t) ==
    /\ pc[t] = "handle"
    /\ LET o == Dispatch(data[t]) IN
        CASE o.outcome = "raise" ->
                /\ response' = [response EXCEPT
                                  ![t] = EncodeResponse(NoneValue, Str(o.msg))]
                /\ pc' = [pc EXCEPT ![t] = OnRequestError]
                /\ UNCHANGED <<frame, ops>>
          [] o.outcome = "load" ->
                /\ frame' = [frame EXCEPT ![t] =
                                [IdleFrame EXCEPT !.caller = "session",
                                                  !.file_path = o.file_path]]
                /\ pc' = [pc EXCEPT ![t] = "read_file"]
                /\ UNCHANGED <<response, ops>>
          [] o.outcome = "sample" ->
                /\ frame' = [frame EXCEPT ![t] =
                                [IdleFrame EXCEPT !.caller = "session",
                                                  !.n_arg = o.n, !.n = o.n]]
                /\ pc' = [pc EXCEPT ![t] = "sample_acquire"]
                /\ ops' = [ops EXCEPT ![t] = @ + 1]
                /\ UNCHANGED response
    /\ data' = [data EXCEPT ![t] = NoData]
    /\ UNCHANGED <<listener, available, total_lines_loaded, lock, history, closedBy>>

Handle(t) == Dispatching(t) /\ UNCHANGED wire

\* handle_load: read the file, then count = self.cache.add_lines(lines);
\* any fault becomes ValueError("Error reading file: ...").
ReadFile(t) ==
    /\ pc[t] = "read_file"
    /\ LET r == OpenAndRead(frame[t].file_path) IN
        IF r.outcome = "value"
        THEN /\ frame' = [frame EXCEPT ![t].lines = r.v]
             /\ pc' = [pc EXCEPT ![t] = "add_acquire"]
             /\ ops' = [ops EXCEPT ![t] = @ + 1]
             /\ UNCHANGED response
        ELSE /\ response' = [response EXCEPT
                               ![t] = EncodeResponse(NoneValue, Str(r.msg))]
             /\ pc' = [pc EXCEPT ![t] = OnRequestError]
             /\ frame' = [frame EXCEPT ![t] = IdleFrame]
             /\ UNCHANGED ops
    /\ UNCHANGED <<wire, listener, available, total_lines_loaded, lock, history, data, closedBy>>

\* client_socket.sendall(response) of a result; a failed write lands in the
\* inner `except Exception`, which encodes str(e) and writes again.
SendResult(t) ==
    /\ pc[t] = "send_result"
    /\ \/ /\ pc' = [pc EXCEPT ![t] = "recv"]
          /\ response' = [response EXCEPT ![t] = NoResponse]
          /\ ops' = [ops EXCEPT ![t] = 0]
       \/ /\ pc' = [pc EXCEPT ![t] = OnRequestError]
          /\ response' = [response EXCEPT
                            ![t] = EncodeResponse(NoneValue, Str("[Errno 32] Broken pipe"))]
          /\ UNCHANGED ops
    /\ UNCHANGED <<wire, listener, available, total_lines_loaded, lock, frame, history, data, closedBy>>

\* client_socket.sendall(response) in the inner `except Exception`; a failed
\* write reaches the outer `except Exception` and the `finally` closes the socket.
SendError(t) ==
    /\ pc[t] = "send_error"
    /\ \/ /\ pc' = [pc EXCEPT ![t] = "recv"]
          /\ UNCHANGED closedBy
       \/ Close(t, "transport")
    /\ response' = [response EXCEPT ![t] = NoResponse]
    /\ ops' = [ops EXCEPT ![t] = 0]
    /\ UNCHANGED <<wire, listener, available, total_lines_loaded, lock, frame, history, data>>

\* The variables a specification does not use stay as they are here.
InitRest ==
    /\ ops = [t \in Threads |-> 0]
    /\ sent = [t \in Threads |-> <<>>]
    /\ inbuf = [t \in Threads |-> <<>>]
    /\ dispatched = [t \in Threads |-> <<>>]
    /\ running = TRUE
    /\ lpc = "accept"
    /\ server_socket = "listening"
    /\ spc = "idle"

(***************************************************************************)
(* Specification of the cache under concurrent callers                     *)
(***************************************************************************)
Init ==
    /\ available = <<>>
    /\ total_lines_loaded = 0
    /\ lock = NoThread
    /\ pc = [t \in Threads |-> "idle"]
    /\ frame = [t \in Threads |-> IdleFrame]
    /\ loadedCnt = [c \in AllLines |-> 0]
    /\ returnedCnt = [c \in AllLines |-> 0]
    /\ lastSampled = {}
    /\ data = [t \in Threads |-> NoData]
    /\ response = [t \in Threads |-> NoResponse]
    /\ closedBy = [t \in Threads |-> "open"]
    /\ InitRest

Next ==
    \E t \in Threads :
        \/ Acquire(t)
        \/ CallAddLines(t) \/ AddExtend(t) \/ AddCount(t) \/ AddReturn(t)
        \/ CallSample(t) \/ SampleCheck(t) \/ SamplePick(t) \/ SampleRebuild(t)
        \/ SampleReturn(t)
        \/ CallSize(t) \/ SizeRead(t) \/ SizeReturn(t)
        \/ CallGetStats(t) \/ StatsRead(t) \/ StatsReturn(t)

Spec == Init /\ [][Next]_vars

(***************************************************************************)
(* Specification of the concurrency scenario of test_thread_safety: the    *)
(* cache pre-loaded with unique lines, every thread sampling until a       *)
(* sample comes back empty                                                 *)
(***************************************************************************)
ScenarioCallSample(t) ==
    /\ pc[t] = "idle"
    /\ frame' = [frame EXCEPT ![t] = [IdleFrame EXCEPT !.caller = "scenario",
                                                       !.n_arg = ScenarioBatch,
                                                       !.n = ScenarioBatch]]
    /\ pc' = [pc EXCEPT ![t] = "sample_acquire"]
    /\ UNCHANGED <<wire, listener, ops, available, total_lines_loaded, lock, history, session>>

InitScenario ==
    /\ available = ScenarioLines
    /\ total_lines_loaded = NumScenarioLines
    /\ lock = NoThread
    /\ pc = [t \in Threads |-> "idle"]
    /\ frame = [t \in Threads |-> IdleFrame]
    /\ loadedCnt = [c \in AllLines |-> Count(ScenarioLines, c)]
    /\ returnedCnt = [c \in AllLines |-> 0]
    /\ lastSampled = {}
    /\ data = [t \in Threads |-> NoData]
    /\ response = [t \in Threads |-> NoResponse]
    /\ closedBy = [t \in Threads |-> "open"]
    /\ InitRest

NextScenario ==
    \E t \in Threads :
        \/ ScenarioCallSample(t) \/ Acquire(t)
        \/ SampleCheck(t) \/ SamplePick(t) \/ SampleRebuild(t) \/ SampleReturn(t)

SpecScenario == InitScenario /\ [][NextScenario]_vars

(***************************************************************************)
(* Specification of loading: sessions whose clients send load requests for *)
(* files of every shape                                                    *)
(***************************************************************************)
LoadMessages ==
    {Json(Object("request", "load", Dict(f, NAbsent))) :
        f \in FileNames \cup MoreFileNames}

RecvLoad(t) == RecvFrom(t, LoadMessages)

NextLoad ==
    \E t \in Threads :
        \/ RecvLoad(t) \/ Handle(t) \/ ReadFile(t) \/ SendResult(t) \/ SendError(t)
        \/ Acquire(t) \/ AddExtend(t) \/ AddCount(t) \/ AddReturn(t)

(***************************************************************************)
(* Specification of the server: one session handler per connection         *)
(***************************************************************************)
InitServer ==
    /\ available = <<>>
    /\ total_lines_loaded = 0
    /\ lock = NoThread
    /\ pc = [t \in Threads |-> "recv"]
    /\ frame = [t \in Threads |-> IdleFrame]
    /\ loadedCnt = [c \in AllLines |-> 0]
    /\ returnedCnt = [c \in AllLines |-> 0]
    /\ lastSampled = {}
    /\ data = [t \in Threads |-> NoData]
    /\ response = [t \in Threads |-> NoResponse]
    /\ closedBy = [t \in Threads |-> "open"]
    /\ InitRest

NextServer ==
    \E t \in Threads :
        \/ Recv(t) \/ Handle(t) \/ ReadFile(t) \/ SendResult(t) \/ SendError(t)
        \/ Acquire(t)
        \/ AddExtend(t) \/ AddCount(t) \/ AddReturn(t)
        \/ SampleCheck(t) \/ SamplePick(t) \/ SampleRebuild(t) \/ SampleReturn(t)

SpecServer == InitServer /\ [][NextServer]_vars

SpecLoad == InitServer /\ [][NextLoad]_vars

(***************************************************************************)
(* Properties of the cache                                                 *)
(***************************************************************************)
RECURSIVE SumOver(_, _)
SumOver(cnt, S) ==
    IF S = {} THEN 0
    ELSE LET c == CHOOSE x \in S : TRUE IN cnt[c] + SumOver(cnt, S \ {c})

\* Total of a per-content count.
Sum(cnt) == SumOver(cnt, AllLines)

\* A sample call that has computed its return value and still holds the lock.
SampleDone(t) == pc[t] = "sample_return"

\* C1: for every n >= 0 and a store with k available lines (lines of equal
\* content included), sample(n) returns exactly min(n, k) lines and leaves
\* size() = k - min(n, k).
C1_SampleCountAndSize ==
    \A t \in Threads :
        SampleDone(t) /\ frame[t].n_arg >= 0 =>
            LET k == Len(frame[t].before)
                m == Min(frame[t].n_arg, k) IN
            /\ Len(frame[t].ret.v) = m
            /\ Len(available) = k - m

\* C2: sample removes exactly the selected instances: per content, what is
\* available after the call is what was available before minus what was returned.
C2_SampleRemovesSelectedOnly ==
    \A t \in Threads :
        SampleDone(t) =>
            \A c \in AllLines :
                Count(available, c) = Count(frame[t].before, c) - Count(frame[t].ret.v, c)

\* C3: whenever get_stats() is observed, available_lines plus the number of
\* lines returned by all sample calls so far equals total_lines_loaded.
C3_StatsConservation ==
    \A t \in Threads :
        pc[t] = "stats_return" =>
            frame[t].ret.available_lines + Sum(returnedCnt)
                = frame[t].ret.total_lines_loaded

\* C4: of two successive sample calls (no add_lines between them), the second
\* returns no line that the first returned.
C4_SuccessiveSamplesDisjoint ==
    \A t \in Threads :
        SampleDone(t) => Range(frame[t].ret.v) \cap lastSampled = {}

C4_Witness ==
    \E t \in Threads :
        /\ SampleDone(t)
        /\ frame[t].ret.v # <<>>
        /\ lastSampled # {}

ScenarioFinished == \A t \in Threads : pc[t] = "done"

\* C5: in the concurrency scenario no line is returned by more than one
\* response, and once every sampler has seen the store exhausted, every loaded
\* line has been returned, nothing is available and total_lines_loaded is M.
C5_ScenarioExhaustsWithoutRepeats ==
    /\ \A i \in 1..NumScenarioLines : returnedCnt[ScenarioLines[i]] <= 1
    /\ ScenarioFinished =>
        /\ \A i \in 1..NumScenarioLines : returnedCnt[ScenarioLines[i]] = 1
        /\ available = <<>>
        /\ total_lines_loaded = NumScenarioLines

C5_Witness ==
    /\ ScenarioFinished
    /\ \A i \in 1..NumScenarioLines : returnedCnt[ScenarioLines[i]] = 1

\* C6: add_lines(lines) with m lines appends all m of them, in order, to the
\* end of available (no deduplication), adds m to size() and to
\* total_lines_loaded, and returns m.
C6_AddLinesAppendsAll ==
    \A t \in Threads :
        pc[t] = "add_return" =>
            LET m == Len(frame[t].lines) IN
            /\ available = frame[t].before \o frame[t].lines
            /\ Len(available) = Len(frame[t].before) + m
            /\ total_lines_loaded = frame[t].total_before + m
            /\ frame[t].ret.v = m

C6_Witness ==
    \E t \in Threads :
        /\ pc[t] = "add_return"
        /\ Len(frame[t].lines) = 2
        /\ frame[t].lines[1] = frame[t].lines[2]
        /\ frame[t].lines[1] \in Range(frame[t].before)

InCall(t) ==
    pc[t] \in {"add_extend", "add_count", "add_return",
               "sample_check", "sample_pick", "sample_rebuild", "sample_return",
               "size_read", "size_return", "stats_read", "stats_return"}

Reading(t) == pc[t] \in {"add_extend", "sample_check", "size_read", "stats_read"}

\* C7: add_lines, sample, size and get_stats exclude each other: at most one
\* thread is inside any of them, it is the lock's holder, and a call reading
\* the store never finds a batch appended but not yet counted, or a sample
\* chosen but not yet removed.
C7_MutualExclusion ==
    /\ \A t, u \in Threads : InCall(t) /\ InCall(u) => t = u
    /\ \A t \in Threads : InCall(t) <=> lock = t
    /\ \A t \in Threads :
        Reading(t) =>
            /\ Sum(loadedCnt) = total_lines_loaded
            /\ \A u \in Threads : pc[u] \notin {"add_count", "sample_rebuild"}

C7_Witness ==
    \E t, u \in Threads :
        /\ pc[t] = "add_count"
        /\ pc[u] = "stats_acquire"
        /\ frame[t].lines # <<>>

(***************************************************************************)
(* Properties of the session handler                                       *)
(***************************************************************************)
IsError(r) == r.result.tag = "none" /\ r.error.tag = "str" /\ r.error.v # ""

\* Thread t leaves position p in this step.
Leaves(t, p) == pc[t] = p /\ pc'[t] # p

\* The request faults the handler is to survive, by the shape of the message.
IsObject(d) == d.wire = "json" /\ d.value.json = "object"
IsRequest(d) == IsObject(d) /\ d.value.type = "request"
IsCall(d, method) == IsRequest(d) /\ d.value.method = method
HasParams(d) == d.value.params.p \in {"absent", "dict"}
ParamsOf(d) == IF d.value.params.p = "dict" THEN d.value.params ELSE EmptyDict

Malformed(d) ==
    \/ d.wire = "garbage"
    \/ ~IsRequest(d)
    \/ d.value.method \notin {"load", "sample"}
    \/ ~HasParams(d)
    \/ IsCall(d, "load") /\ ParamsOf(d).file_path \in {Absent, ""}
    \/ IsCall(d, "sample") /\ ParamsOf(d).n.t \in {"absent", "null", "list"}
    \/ IsCall(d, "sample") /\ ParamsOf(d).n = NStr("x")

\* C8: a fault raised while handling one request (undecodable payload, type
\* other than request, unknown method, missing or invalid parameters, a failed
\* operation) puts an Error response on the connection and the session goes on
\* to read the next request; a session ends only on end-of-stream or on a
\* failed read or write.
C8_RequestFaultsAnswered ==
    [][\A t \in Threads :
        /\ Leaves(t, "handle") /\ (Malformed(data[t]) \/ Dispatch(data[t]).outcome = "raise")
              => pc'[t] = "send_error" /\ IsError(response'[t])
        /\ Leaves(t, "read_file") /\ ~FileSystem(frame[t].file_path).ok
              => pc'[t] = "send_error" /\ IsError(response'[t])
        /\ Leaves(t, "send_error")
              => pc'[t] = "recv" \/ (pc'[t] = "closed" /\ closedBy'[t] = "transport")
        /\ pc[t] # "closed" /\ pc'[t] = "closed"
              => /\ pc[t] \in {"recv", "send_result", "send_error"}
                 /\ closedBy'[t] \in {"eof", "transport"}]_vars

C8_Witness ==
    \E t, u \in Threads :
        /\ pc[t] = "send_error"
        /\ response[t].error = Str("Unknown method")
        /\ closedBy[t] = "open"
        /\ pc[u] = "send_error"
        /\ response[u].error = Str("Expecting value")

\* n is negative as the request carries it.
Negative(n) ==
    \/ n.t = "int" /\ n.v < 0
    \/ n.t = "float" /\ n.h < 0
    \/ n = NStr("-1")

NotCoercible(n) == n.t = "list" \/ n = NStr("x")

BadN(n) == n.t \in {"absent", "null"} \/ Negative(n) \/ NotCoercible(n)

\* C9: a sample request whose n is missing, negative or not coercible to an
\* integer is answered with an Error response and leaves the store as it is;
\* it is not treated as sample(0), and cache.sample is entered only with a
\* non-negative integer.
C9_BadNRejected ==
    [][\A t \in Threads :
        /\ Leaves(t, "handle") /\ IsCall(data[t], "sample") /\ HasParams(data[t])
                /\ BadN(ParamsOf(data[t]).n)
              => /\ pc'[t] = "send_error"
                 /\ IsError(response'[t])
                 /\ UNCHANGED cache
        /\ pc'[t] = "sample_acquire" => frame'[t].n_arg >= 0]_vars

LoadFails(d) ==
    /\ IsCall(d, "load")
    /\ HasParams(d)
    /\ \/ ParamsOf(d).file_path \in {Absent, ""}
       \/ ~FileSystem(ParamsOf(d).file_path).ok

\* C10: a load request whose file cannot be read (no file_path, no such file,
\* no permission) is answered with an Error response, changes neither
\* available nor total_lines_loaded, and the session goes on reading.
C10_FailedLoadIsError ==
    [][\A t \in Threads :
        /\ Leaves(t, "handle") /\ LoadFails(data[t])
              => /\ UNCHANGED cache
                 /\ \/ pc'[t] = "send_error" /\ IsError(response'[t])
                    \/ pc'[t] = "read_file"
        /\ Leaves(t, "read_file") /\ ~FileSystem(frame[t].file_path).ok
              => /\ UNCHANGED cache
                 /\ pc'[t] = "send_error" /\ IsError(response'[t])
        /\ Leaves(t, "send_error")
              => /\ UNCHANGED cache
                 /\ pc'[t] = "recv" \/ closedBy'[t] = "transport"]_vars

C10_Witness ==
    \E t \in Threads :
        /\ pc[t] = "send_error"
        /\ response[t].error = Str("Error reading file")
        /\ closedBy[t] = "open"
        /\ available # <<>>

\* The lines a file holds, as they were written.
LinesOf(file_path) ==
    LET raw == FileSystem(file_path).raw IN [i \in 1..Len(raw) |-> ToStr(raw[i].text)]

\* C11: a successful load of a file of m lines (empty and repeated lines
\* included) adds exactly those lines, without their terminators and in file
\* order, to the store and answers lines_read = m: size() and
\* total_lines_loaded each grow by the lines_read reported.
C11_LoadAddsFileLines ==
    [][\A t \in Threads :
        Leaves(t, "add_return") /\ frame[t].caller = "session" =>
            LET m == Len(LinesOf(frame[t].file_path)) IN
            /\ frame[t].lines = LinesOf(frame[t].file_path)
            /\ available = frame[t].before \o LinesOf(frame[t].file_path)
            /\ total_lines_loaded = frame[t].total_before + m
            /\ pc'[t] = "send_result"
            /\ response'[t] = EncodeResponse([tag |-> "lines_read", v |-> m], NoneValue)]_vars

C11_Witness ==
    \E t \in Threads :
        /\ pc[t] = "send_result"
        /\ response[t].result = [tag |-> "lines_read", v |-> 3]
        /\ available = <<"b", "a", "", "a">>

(***************************************************************************)
(* Specification of the byte stream: clients write encoded requests to the *)
(* connection and each recv returns whatever prefix of the unread bytes    *)
(* the kernel hands over                                                   *)
(***************************************************************************)
MaxSent == 2

\* MAX_MESSAGE_SIZE, in the unit the model cuts an encoded request into.
MaxMessageSize == 3

StreamRequests ==
    {Object("request", "sample", Dict(Absent, NInt(1))),
     Object("request", "load", Dict("b.txt", NAbsent))}

\* Protocol.encode_request: the bytes of json.dumps(message), as the pieces
\* the stream can be cut into. Nothing marks where a request begins or ends.
EncodeRequest(message) ==
    <<[of |-> message, piece |-> "head"], [of |-> message, piece |-> "tail"]>>

\* What Protocol.decode makes of the bytes of one recv: json.loads accepts the
\* text of exactly one JSON value; a part of one, or one followed by more
\* bytes ("Extra data"), does not parse.
Loads(chunk) ==
    IF \E message \in StreamRequests : chunk = EncodeRequest(message)
    THEN Json(chunk[1].of)
    ELSE Garbage

\* LineClient._send_request: self.socket.sendall(request)
ClientSend(t) ==
    /\ pc[t] # "closed"
    /\ Len(sent[t]) < MaxSent
    /\ \E message \in StreamRequests :
          /\ sent' = [sent EXCEPT ![t] = Append(@, message)]
          /\ inbuf' = [inbuf EXCEPT ![t] = @ \o EncodeRequest(message)]
    /\ UNCHANGED <<dispatched, listener, ops, cache, lock, pc, frame, history, session>>

\* data = client_socket.recv(MAX_MESSAGE_SIZE); if not data: break
\* recv returns between one byte and MAX_MESSAGE_SIZE bytes of what is unread,
\* b'' once the peer has closed and nothing is unread, or fails.
RecvStream(t) ==
    /\ pc[t] = "recv"
    /\ \/ /\ \E k \in 1..Min(Len(inbuf[t]), MaxMessageSize) :
                LET d == Loads(SubSeq(inbuf[t], 1, k)) IN
                /\ total_lines_loaded + LoadSize(d) <= MaxLoaded
                /\ data' = [data EXCEPT ![t] = d]
                /\ inbuf' = [inbuf EXCEPT ![t] = SubSeq(@, k + 1, Len(@))]
          /\ pc' = [pc EXCEPT ![t] = "handle"]
          /\ UNCHANGED closedBy
       \/ inbuf[t] = <<>> /\ Close(t, "eof") /\ UNCHANGED <<data, inbuf>>
       \/ Close(t, "transport") /\ UNCHANGED <<data, inbuf>>
    /\ UNCHANGED <<sent, dispatched, listener, ops, available, total_lines_loaded,
                   lock, frame, history, response>>

\* The dispatch of handle_client, with the request noted once it has been
\* decoded and handed to handle_load or handle_sample.
HandleStream(t) ==
    /\ Dispatching(t)
    /\ dispatched' = [dispatched EXCEPT ![t] =
                        IF Decode(data[t]).outcome = "value"
                           /\ IsRequest(data[t])
                           /\ data[t].value.method \in {"load", "sample"}
                        THEN Append(@, data[t].value) ELSE @]
    /\ UNCHANGED <<sent, inbuf>>

NextStream ==
    \E t \in Threads :
        \/ ClientSend(t) \/ RecvStream(t) \/ HandleStream(t)
        \/ ReadFile(t) \/ SendResult(t) \/ SendError(t)
        \/ Acquire(t)
        \/ AddExtend(t) \/ AddCount(t) \/ AddReturn(t)
        \/ SampleCheck(t) \/ SamplePick(t) \/ SampleRebuild(t) \/ SampleReturn(t)

SpecStream == InitServer /\ [][NextStream]_vars

IsPrefix(s, r) == Len(s) <= Len(r) /\ s = SubSeq(r, 1, Len(s))

\* The session has read everything its client has written so far.
Drained(t) == pc[t] = "recv" /\ inbuf[t] = <<>>

\* C12: however the bytes of a client's requests are split across, or
\* coalesced into, the reads of the socket, each request sent is decoded and
\* dispatched exactly once, in the order sent: what has been dispatched is
\* always a prefix of what was sent, and all of it once the session has read
\* every byte.
C12_EachRequestDispatchedOnce ==
    \A t \in Threads :
        /\ IsPrefix(dispatched[t], sent[t])
        /\ Drained(t) => dispatched[t] = sent[t]

\* The bytes of one read are not one whole request: a part of one, or more
\* than one.
FramingError(d) == d.wire = "garbage"

\* The response the handler writes for bytes that do not decode.
DecodeErrorResponse == EncodeResponse(NoneValue, Str(Decode(Garbage).msg))

\* C13: a framing error (an oversized or malformed frame, a disconnect in the
\* middle of a frame) terminates the session: no store operation is
\* dispatched for it, and once the handler has dealt with it the session is
\* closed and does not go back to reading the connection.
C13_FramingErrorEndsSession ==
    [][\A t \in Threads :
        /\ Leaves(t, "handle") /\ FramingError(data[t])
              => /\ pc'[t] \in {"send_error", "closed"}
                 /\ dispatched'[t] = dispatched[t]
        /\ Leaves(t, "send_error") /\ response[t] = DecodeErrorResponse
              => pc'[t] = "closed"]_vars

\* The response a session is writing, if it is writing one.
Writing(t) == pc[t] \in {"send_result", "send_error"}

\* C14: every response the session handler writes is exactly one of a result
\* or an error: a success response has a non-null result and a null error,
\* an error response has a null result and a non-empty error message.
C14_ResultXorError ==
    \A t \in Threads :
        /\ Writing(t) =>
              (response[t].result.tag = "none") # (response[t].error.tag = "none")
        /\ pc[t] = "send_result" =>
              response[t].result.tag # "none" /\ response[t].error.tag = "none"
        /\ pc[t] = "send_error" => IsError(response[t])

C14_Witness ==
    \E t, u \in Threads :
        /\ pc[t] = "send_result" /\ response[t].result.tag = "lines"
        /\ pc[u] = "send_error" /\ response[u].error.tag = "str"

\* C15: sample(n) on an empty store, or with n <= 0 on any store, returns an
\* empty sequence and leaves available and total_lines_loaded as they were
\* when the call took the lock.
C15_EmptyOrNonPositiveSample ==
    [][\A t \in Threads :
        Leaves(t, "sample_return")
        /\ (frame[t].before = <<>> \/ frame[t].n_arg <= 0)
            => /\ frame[t].ret = [kind |-> "lines", v |-> <<>>]
               /\ available = frame[t].before
               /\ total_lines_loaded = frame[t].total_before
               /\ UNCHANGED cache]_vars

\* A sample with a negative n of a store that holds lines, about to return.
C15_Witness ==
    \E t \in Threads :
        /\ SampleDone(t) /\ frame[t].n_arg < 0
        /\ frame[t].before # <<>> /\ frame[t].ret.v = <<>>
        /\ available = frame[t].before

\* Thread t takes the step from position p to position q.
Moves(t, p, q) == pc[t] = p /\ pc'[t] = q

\* No add_lines is between its two writes: it has appended its lines and not
\* yet counted them. Both writes are made in one holding of the lock, so
\* these are the states every call of size or get_stats reads.
BetweenOperations == \A t \in Threads : pc[t] # "add_count"

\* A step changes the store only as add_lines and sample do.
StoreStep ==
    /\ total_lines_loaded' # total_lines_loaded
          => /\ total_lines_loaded' > total_lines_loaded
             /\ \E t \in Threads : Moves(t, "add_count", "add_return")
    /\ available' # available
          => \/ /\ \E t \in Threads : Moves(t, "add_extend", "add_count")
                /\ Len(available') > Len(available)
             \/ /\ \E t \in Threads : Moves(t, "sample_rebuild", "sample_return")
                /\ Len(available') < Len(available)
    /\ \A t \in Threads :
          pc[t] \in {"size_acquire", "size_read", "size_return",
                     "stats_acquire", "stats_read", "stats_return"}
          /\ pc'[t] # pc[t]
              => UNCHANGED cache

\* C16: in every state of the store the number of available lines is at most
\* total_lines_loaded; total_lines_loaded never decreases and only add_lines
\* changes it; available grows only through add_lines and shrinks only
\* through sample; size and get_stats change nothing.
C16_StoreInvariants ==
    /\ [](BetweenOperations => Len(available) <= total_lines_loaded)
    /\ [][StoreStep]_vars

\* get_stats reads a store that has been loaded and sampled from, while a
\* second thread is inside neither.
C16_Witness ==
    \E t \in Threads :
        /\ pc[t] = "stats_read"
        /\ available # <<>>
        /\ Len(available) < total_lines_loaded

\* C17: over the whole history of the store, under any interleaving of loads
\* and samples, no loaded line instance is delivered twice: the lines one
\* sample call returns are distinct instances of the pool as it was at the
\* call, and for each content the number of times it has been returned, the
\* call about to return included, never exceeds the number of times it was
\* loaded.
C17_NoInstanceDeliveredTwice ==
    \A c \in AllLines :
        /\ returnedCnt[c] <= loadedCnt[c]
        /\ \A t \in Threads :
              SampleDone(t) =>
                  /\ Count(frame[t].ret.v, c) <= Count(frame[t].before, c)
                  /\ returnedCnt[c] + Count(frame[t].ret.v, c) <= loadedCnt[c]

\* A second sample is about to return a line of the same content as one
\* delivered before, the content having been loaded twice.
C17_Witness ==
    \E t \in Threads : \E c \in AllLines :
        /\ SampleDone(t)
        /\ Count(frame[t].ret.v, c) = 1
        /\ returnedCnt[c] = 1
        /\ loadedCnt[c] = 2

\* The session is outside every cache call: reading its socket, decoding and
\* dispatching, reading a file, writing a response, or closed.
InIO(t) == pc[t] \in {"recv", "handle", "read_file", "send_result", "send_error", "closed"}

\* C18: a session never holds the store lock while doing file or socket I/O:
\* the lock is held only inside add_lines, sample, size and get_stats, so a
\* session that is reading a file, reading its socket or writing a response
\* never keeps another session's store operation from taking the lock.
C18_NoLockAcrossIO ==
    /\ \A t \in Threads : InIO(t) => lock # t
    /\ lock # NoThread => lock \in Threads /\ InCall(lock)
    /\ \A t, u \in Threads :
          InIO(t) /\ t # u /\ pc[u] \in {"add_acquire", "sample_acquire"}
              => ENABLED Acquire(u)

\* One session has read its file and waits for the lock while the other is
\* writing the response of a load that went through the store.
C18_Witness ==
    \E t, u \in Threads :
        /\ pc[t] = "send_result" /\ response[t].result.tag = "lines_read"
        /\ pc[u] = "add_acquire"
        /\ lock = NoThread

\* The state of the connection's state machine a session's position lies in.
Phase(p) ==
    CASE p = "recv" -> "Reading"
      [] p \in {"send_result", "send_error"} -> "Responding"
      [] p = "closed" -> "Closed"
      [] OTHER -> "Dispatching"

PhaseEdges ==
    {<<"Reading", "Dispatching">>, <<"Dispatching", "Dispatching">>,
     <<"Dispatching", "Responding">>, <<"Responding", "Responding">>,
     <<"Responding", "Reading">>, <<"Reading", "Closed">>, <<"Responding", "Closed">>}

\* A step of session t along the state machine: a message read starts the
\* dispatch with no store operation made for it; a store operation is invoked
\* only while dispatching; the write that completes is the step back to
\* reading, so nothing is read between a message and its response.
SessionStep(t) ==
    /\ <<Phase(pc[t]), Phase(pc'[t])>> \in PhaseEdges
    /\ Moves(t, "recv", "handle") => data'[t] # NoData /\ ops[t] = 0
    /\ ops'[t] > ops[t] =>
          /\ Phase(pc[t]) = "Dispatching"
          /\ pc'[t] \in {"add_acquire", "sample_acquire"}
    /\ pc'[t] \in {"add_acquire", "sample_acquire"} => ops'[t] = ops[t] + 1
    /\ Phase(pc'[t]) = "Reading" =>
          /\ pc[t] \in {"send_result", "send_error"}
          /\ response[t] # NoResponse
          /\ response'[t] = NoResponse

\* C19: each session follows Reading -> Dispatching -> Responding -> Reading:
\* for every message read at most one store operation is invoked, and exactly
\* one response is written before the next message is read, so responses are
\* in the order of the messages read and never outnumber them.
C19_SessionStateMachine ==
    /\ [](\A t \in Threads : ops[t] <= 1)
    /\ [][\A t \in Threads : pc'[t] # pc[t] => SessionStep(t)]_vars

\* A session writes an Error after the write of a store operation's result
\* failed, while the other session is writing the result of its own.
C19_Witness ==
    \E t, u \in Threads :
        /\ pc[t] = "send_error" /\ ops[t] = 1
        /\ pc[u] = "send_result" /\ ops[u] = 1

(***************************************************************************)
(* Specification of the accept loop: LineServer.start spawns one session   *)
(* handler per connection                                                  *)
(***************************************************************************)
ListenerMessages ==
    {Garbage,
     Json(Object("request", "load", Dict("ab.txt", NAbsent))),
     Json(Object("request", "sample", Dict(Absent, NInt(1))))}

RecvListener(t) == RecvFrom(t, ListenerMessages)

\* while self.running:
LoopTest ==
    /\ lpc = "test"
    /\ lpc' = IF running THEN "accept" ELSE "returned"
    /\ UNCHANGED <<running, server_socket, spc, wire, ops, cache, lock, pc, frame, history, session>>

\* client_socket, client_address = self.server_socket.accept()
\* client_thread = threading.Thread(target=self.handle_client, ...); start()
\* A connection arrives only through a socket that is listening.
Accept(t) ==
    /\ lpc = "accept"
    /\ server_socket = "listening"
    /\ pc[t] = "unborn"
    /\ pc' = [pc EXCEPT ![t] = "recv"]
    /\ lpc' = "test"
    /\ UNCHANGED <<running, server_socket, spc, wire, ops, cache, lock, frame, history, session>>

\* accept() raises: except Exception logs it and the loop goes on.
AcceptFault ==
    /\ lpc = "accept"
    /\ lpc' = "test"
    /\ UNCHANGED <<running, server_socket, spc, wire, ops, cache, lock, pc, frame, history, session>>

InitListener ==
    /\ available = <<>>
    /\ total_lines_loaded = 0
    /\ lock = NoThread
    /\ pc = [t \in Threads |-> "unborn"]
    /\ frame = [t \in Threads |-> IdleFrame]
    /\ loadedCnt = [c \in AllLines |-> 0]
    /\ returnedCnt = [c \in AllLines |-> 0]
    /\ lastSampled = {}
    /\ data = [t \in Threads |-> NoData]
    /\ response = [t \in Threads |-> NoResponse]
    /\ closedBy = [t \in Threads |-> "open"]
    /\ ops = [t \in Threads |-> 0]
    /\ sent = [t \in Threads |-> <<>>]
    /\ inbuf = [t \in Threads |-> <<>>]
    /\ dispatched = [t \in Threads |-> <<>>]
    /\ running = TRUE
    /\ lpc = "test"
    /\ server_socket = "listening"
    /\ spc = "idle"

NextListener ==
    \/ LoopTest
    \/ AcceptFault
    \/ \E t \in Threads :
          \/ Accept(t)
          \/ RecvListener(t) \/ Handle(t) \/ ReadFile(t) \/ SendResult(t) \/ SendError(t)
          \/ Acquire(t)
          \/ AddExtend(t) \/ AddCount(t) \/ AddReturn(t)
          \/ SampleCheck(t) \/ SamplePick(t) \/ SampleRebuild(t) \/ SampleReturn(t)

SpecListener == InitListener /\ [][NextListener]_vars

\* Session t ends in this step.
Closes(t) == pc[t] # "closed" /\ pc'[t] = "closed"

\* What a step of session t leaves alone in every other session.
OthersUndisturbed(t) ==
    \A u \in Threads \ {t} :
        /\ pc'[u] = pc[u] /\ frame'[u] = frame[u]
        /\ data'[u] = data[u] /\ response'[u] = response[u]
        /\ closedBy'[u] = closedBy[u]

\* The end of session t: at its read (end-of-stream, or the read fails) or at
\* the write of an Error response that fails; the socket is closed in that
\* step and in no other; the store, its lock, the other sessions and the
\* accept loop stay as they are.
SessionEnd(t) ==
    /\ Closes(t) =>
          /\ pc[t] \in {"recv", "send_error"}
          /\ closedBy[t] = "open"
          /\ closedBy'[t] \in {"eof", "transport"}
          /\ closedBy'[t] = "eof" => pc[t] = "recv"
          /\ UNCHANGED <<cache, lock, listener>>
          /\ OthersUndisturbed(t)
    /\ Leaves(t, "recv") /\ data'[t] = NoData => Closes(t)
    /\ closedBy'[t] # closedBy[t] => Closes(t)
    /\ pc[t] = "closed" => pc'[t] = "closed"

\* C20: when the peer closes its connection or a transport fault occurs the
\* session reaches Closed and its socket is closed exactly once; closing a
\* session changes neither the available lines nor total_lines_loaded and
\* disturbs neither another session nor the accept loop.
C20_CloseIsLocal ==
    /\ [](\A t \in Threads : pc[t] = "closed" <=> closedBy[t] # "open")
    /\ [][\A t \in Threads : SessionEnd(t)]_vars

\* One session has ended at end-of-stream while the other, accepted as well,
\* is inside add_lines, the store holds lines and the loop is at accept().
C20_Witness ==
    \E t, u \in Threads :
        /\ pc[t] = "closed" /\ closedBy[t] = "eof"
        /\ pc[u] = "add_count"
        /\ available # <<>>
        /\ lpc = "accept"

(***************************************************************************)
(* Specification of shutdown: LineServer.stop called from another thread   *)
(* at any moment of a running LineServer.start                              *)
(***************************************************************************)
\* os.unlink(self.socket_path) ... self.server_socket = socket.socket(...);
\* bind; listen(5)
StartBind ==
    /\ lpc = "start"
    /\ server_socket' = "listening"
    /\ lpc' = "set_running"
    /\ UNCHANGED <<running, spc, wire, ops, cache, lock, pc, frame, history, session>>

\* self.running = True
StartSetRunning ==
    /\ lpc = "set_running"
    /\ running' = TRUE
    /\ lpc' = "test"
    /\ UNCHANGED <<server_socket, spc, wire, ops, cache, lock, pc, frame, history, session>>

\* stop(): self.running = False
StopFlag ==
    /\ spc = "idle"
    /\ running' = FALSE
    /\ spc' = "stop_close"
    /\ UNCHANGED <<lpc, server_socket, wire, ops, cache, lock, pc, frame, history, session>>

\* stop(): if self.server_socket: self.server_socket.close()
\* A thread that is inside accept() when the descriptor is closed is woken with
\* an error on some systems and is left waiting on others (Linux), where no
\* connection reaches the closed socket any more; a thread that has not yet
\* entered accept() finds the socket closed and the call raises.
StopClose ==
    /\ spc = "stop_close"
    /\ server_socket' = IF server_socket = "none" THEN "none" ELSE "closed"
    /\ \/ lpc' = lpc
       \/ lpc = "accept" /\ server_socket = "listening" /\ lpc' = "blocked"
    /\ spc' = "stop_unlink"
    /\ UNCHANGED <<running, wire, ops, cache, lock, pc, frame, history, session>>

\* stop(): os.unlink(self.socket_path), OSError ignored; the call returns.
StopUnlink ==
    /\ spc = "stop_unlink"
    /\ spc' = "done"
    /\ UNCHANGED <<running, lpc, server_socket, wire, ops, cache, lock, pc, frame, history, session>>

\* The state after LineServer.__init__, start() called and at its first
\* statement, stop() not yet called.
InitStop ==
    /\ available = <<>>
    /\ total_lines_loaded = 0
    /\ lock = NoThread
    /\ pc = [t \in Threads |-> "unborn"]
    /\ frame = [t \in Threads |-> IdleFrame]
    /\ loadedCnt = [c \in AllLines |-> 0]
    /\ returnedCnt = [c \in AllLines |-> 0]
    /\ lastSampled = {}
    /\ data = [t \in Threads |-> NoData]
    /\ response = [t \in Threads |-> NoResponse]
    /\ closedBy = [t \in Threads |-> "open"]
    /\ ops = [t \in Threads |-> 0]
    /\ sent = [t \in Threads |-> <<>>]
    /\ inbuf = [t \in Threads |-> <<>>]
    /\ dispatched = [t \in Threads |-> <<>>]
    /\ running = FALSE
    /\ lpc = "start"
    /\ server_socket = "none"
    /\ spc = "idle"

\* The steps of the thread that runs start().
ListenerStep ==
    \/ StartBind \/ StartSetRunning \/ LoopTest \/ AcceptFault
    \/ \E t \in Threads : Accept(t)

\* The steps of the thread that runs stop().
StopStep == StopFlag \/ StopClose \/ StopUnlink

NextStop ==
    \/ StartBind \/ StartSetRunning \/ LoopTest \/ AcceptFault
    \/ StopFlag \/ StopClose \/ StopUnlink
    \/ \E t \in Threads :
          \/ Accept(t)
          \/ RecvListener(t) \/ Handle(t) \/ ReadFile(t) \/ SendResult(t) \/ SendError(t)
          \/ Acquire(t)
          \/ AddExtend(t) \/ AddCount(t) \/ AddReturn(t)
          \/ SampleCheck(t) \/ SamplePick(t) \/ SampleRebuild(t) \/ SampleReturn(t)

\* Both threads are scheduled: one that can take a step takes it in the end.
\* For the thread in accept() this also lets the call return, with a
\* connection or a fault, whenever the socket allows it.
SpecStop ==
    InitStop /\ [][NextStop]_vars /\ WF_vars(ListenerStep) /\ WF_vars(StopStep)

\* stop() has returned.
Stopped == spc = "done"

\* What a step of stop() does and leaves alone: the flag goes down, the socket
\* is not left listening, and no session is closed, joined or moved.
StopEffect ==
    /\ spc = "idle" /\ spc' # "idle" => ~running'
    /\ spc = "stop_close" /\ spc' # "stop_close" => server_socket' # "listening"
    /\ spc' # spc => UNCHANGED <<pc, frame, session, cache, lock>>

\* Once stop() has returned no session handler is spawned.
NoSpawnAfterStop ==
    Stopped => \A t \in Threads : pc[t] = "unborn" => pc'[t] = "unborn"

\* C21: stop() sets running to false and closes the listening socket, which
\* unblocks the accept loop: for every interleaving of a stop() call with a
\* running start(), after stop() the accept loop eventually exits (start()
\* returns) and no further session handler is spawned, while the sessions
\* already running are neither joined nor closed.
C21_StopEndsAcceptLoop ==
    /\ [][StopEffect]_vars
    /\ [][NoSpawnAfterStop]_vars
    /\ Stopped ~> lpc = "returned"

\* The state in which test_server's tearDownClass calls stop(): start() has
\* bound the socket, set running and reached its loop.
InitServing ==
    /\ available = <<>>
    /\ total_lines_loaded = 0
    /\ lock = NoThread
    /\ pc = [t \in Threads |-> "unborn"]
    /\ frame = [t \in Threads |-> IdleFrame]
    /\ loadedCnt = [c \in AllLines |-> 0]
    /\ returnedCnt = [c \in AllLines |-> 0]
    /\ lastSampled = {}
    /\ data = [t \in Threads |-> NoData]
    /\ response = [t \in Threads |-> NoResponse]
    /\ closedBy = [t \in Threads |-> "open"]
    /\ ops = [t \in Threads |-> 0]
    /\ sent = [t \in Threads |-> <<>>]
    /\ inbuf = [t \in Threads |-> <<>>]
    /\ dispatched = [t \in Threads |-> <<>>]
    /\ running = TRUE
    /\ lpc = "test"
    /\ server_socket = "listening"
    /\ spc = "idle"

SpecServing ==
    InitServing /\ [][NextStop]_vars /\ WF_vars(ListenerStep) /\ WF_vars(StopStep)

\* The part of C21 that fails even when stop() is called only after the loop
\* has been entered: the thread left waiting in accept() never returns.
StopUnblocksAccept == Stopped ~> lpc = "returned"
====
